---- MODULE Spec2Model ----
(***************************************************************************)
(* A model of popoki: the Wordle correctness mask (Correctness::compute),  *)
(* the compatibility oracle (Guess::matches), the game loop (Wordle::play) *)
(* and the entropy guesser (Weight::new, Weight::guess) with the static    *)
(* INITIAL its instances share.                                            *)
(*                                                                         *)
(* Words are 5-tuples of one-letter strings.  A mask is a 5-tuple over     *)
(* {"Correct", "Misplaced", "Wrong"}.  Positions are 1-based here and      *)
(* 0-based in the source.                                                  *)
(***************************************************************************)
EXTENDS Integers, Sequences, FiniteSets, TLC

VARIABLES
    dictionary,  \* DICTIONARY: the ordered (word, count) entries
    answer,      \* play's `answer`; compute's `answer`
    guess,       \* play's local `guess`; compute's `guess`
    history,     \* play's local `history`: sequence of Guess {word, mask}
    i,           \* play's loop counter
    pc,          \* position in the running function
    result,      \* play's return value
    remaining,   \* Weight.remaining: Cow {tag, vec}
    returned,    \* every word the guesser has returned so far, in call order
    histArg,     \* the history slice handed to the latest guesser call
    prevVec,     \* Weight.remaining's entries before the latest guess call
    script,      \* the scripted guesser's fields {at, hit, miss}
    mask,        \* Guess.mask of the Guess handed to matches
    c,           \* the mask returned by the latest compute call
    m,           \* the boolean returned by the latest matches call
    INITIAL,     \* the static OnceCell {set, vec}
    weights,     \* the Weight instances that share INITIAL, by number
    alone        \* the pool each instance has when its calls run alone

\* The state of the instances that share INITIAL.
shared == <<INITIAL, weights, alone>>

vars == <<dictionary, answer, guess, history, i, pc, result, remaining,
          returned, histArg, prevVec, script, mask, c, m, shared>>

----------------------------------------------------------------------------
(* Program constants *)

\* pub type Word = [u8; 5]
WordLen == 5

\* for i in 1..=32
MaxRounds == 32

Positions == 1..WordLen

OpeningWord == <<"t", "r", "a", "c", "e">>
FallbackWord == <<"c", "i", "g", "a", "r">>

\* enum Correctness
Correctness == {"Correct", "Misplaced", "Wrong"}

\* Values of the variables a specification does not use or has not set yet.
NoWord == <<>>
NoMask == <<>>
NoResult == [tag |-> "Pending", val |-> 0]
NoPool == [tag |-> "Borrowed", vec |-> <<>>]
NoScript == [at |-> 0, hit |-> <<>>, miss |-> <<>>]
NoWeights == <<>>

----------------------------------------------------------------------------
(* Correctness::compute *)

\* First loop: mark things green.
MarkGreen(a, g) ==
    [p \in Positions |-> IF a[p] = g[p] THEN "Correct" ELSE "Wrong"]

\* Second loop: used[i] = true for every green position.
UsedByGreen(cs) == [p \in Positions |-> cs[p] = "Correct"]

\* The closure handed to `any`: the first answer position holding g that is
\* not used yet, or 0 when there is none (`any` stops at the first hit).
FirstUnused(a, g, used) ==
    LET hits == {p \in Positions : a[p] = g /\ ~used[p]}
    IN  IF hits = {} THEN 0 ELSE CHOOSE p \in hits : \A q \in hits : p <= q

\* A slip: the second pass forgets to flag the answer position it consumed.
RECURSIVE MarkYellowNoFlag(_, _, _, _, _)
MarkYellowNoFlag(a, g, cs, used, p) ==
    IF p > WordLen THEN cs
    ELSE IF cs[p] = "Correct" THEN MarkYellowNoFlag(a, g, cs, used, p + 1)
    ELSE LET j == FirstUnused(a, g[p], used)
         IN  IF j = 0
             THEN MarkYellowNoFlag(a, g, cs, used, p + 1)
             ELSE MarkYellowNoFlag(a, g, [cs EXCEPT ![p] = "Misplaced"],
                                   used, p + 1)

\* Third loop, from guess position p on: mark things yellow.
RECURSIVE MarkYellow(_, _, _, _, _)
MarkYellow(a, g, cs, used, p) ==
    IF p > WordLen THEN cs
    ELSE IF cs[p] = "Correct" THEN MarkYellow(a, g, cs, used, p + 1)
    ELSE LET j == FirstUnused(a, g[p], used)
         IN  IF j = 0
             THEN MarkYellow(a, g, cs, used, p + 1)
             ELSE MarkYellow(a, g, [cs EXCEPT ![p] = "Misplaced"],
                             [used EXCEPT ![j] = TRUE], p + 1)

computeNoFlag(a, g) ==
    LET green == MarkGreen(a, g)
    IN  MarkYellowNoFlag(a, g, green, UsedByGreen(green), 1)

compute(a, g) ==
    LET green == MarkGreen(a, g)
    IN  MarkYellow(a, g, green, UsedByGreen(green), 1)

\* The set of the 3^5 masks Correctness::patterns yields.
Patterns == [Positions -> Correctness]

----------------------------------------------------------------------------
(* Guess::matches *)

\* A slip: the candidate is scored as the guess and the past guess as the
\* answer.
matchesSwapped(g, word) == compute(g.word, word) = g.mask

\* A slip: only the Correct positions of the two masks are compared.
matchesGreenOnly(g, word) ==
    \A p \in Positions :
        (compute(word, g.word)[p] = "Correct") <=> (g.mask[p] = "Correct")

matches(g, word) == compute(word, g.word) = g.mask

----------------------------------------------------------------------------
(* Weight: the candidate pool and the entropy scorer *)

\* Correctness::patterns() in the order itertools::iproduct! yields them:
\* the first array varies slowest, each array runs Correct, Misplaced, Wrong.
Variants == <<"Correct", "Misplaced", "Wrong">>

NumPatterns == 3 * 3 * 3 * 3 * 3

RECURSIVE Pow3(_)
Pow3(e) == IF e = 0 THEN 1 ELSE 3 * Pow3(e - 1)

\* A slip: the last two arrays of the product advance together.
PatternSeqPaired ==
    [n \in 1..NumPatterns |->
        [p \in Positions |->
            Variants[(((n - 1) \div Pow3(IF p = WordLen THEN 1
                                         ELSE WordLen - p)) % 3) + 1]]]

PatternSeq ==
    [n \in 1..NumPatterns |->
        [p \in Positions |->
            Variants[(((n - 1) \div Pow3(WordLen - p)) % 3) + 1]]]

\* OnceCell::new(): the empty cell.
EmptyCell == [set |-> FALSE, vec |-> <<>>]

\* INITIAL.get_or_init(|| DICTIONARY.lines()...collect()): the closure runs
\* only on an empty cell, under the cell's lock.
GetOrInit(cell, dict) ==
    IF cell.set THEN cell ELSE [set |-> TRUE, vec |-> dict]

\* iter().filter(|&&(word, _)| last.matches(word)) and
\* retain(|&(word, _)| last.matches(word)): both keep, in order, the
\* entries whose word the Guess accepts.
RECURSIVE Filter(_, _)
Filter(vec, last) ==
    IF vec = <<>> THEN <<>>
    ELSE IF matches(last, Head(vec).word)
         THEN <<Head(vec)>> \o Filter(Tail(vec), last)
         ELSE Filter(Tail(vec), last)

\* A slip: every call filters the shared dictionary anew with the last Guess.
NarrowFromInitial(rem, hist) ==
    IF hist = <<>> THEN rem
    ELSE [tag |-> "Owned", vec |-> Filter(dictionary, hist[Len(hist)])]

\* A slip: an owned pool is left as it is.
NarrowOnce(rem, hist) ==
    IF hist = <<>> \/ rem.tag = "Owned" THEN rem
    ELSE [tag |-> "Owned", vec |-> Filter(rem.vec, hist[Len(hist)])]

\* A slip: the private copy is made on every call, also for an empty
\* history.
NarrowEager(rem, hist) ==
    IF hist = <<>> THEN [tag |-> "Owned", vec |-> rem.vec]
    ELSE [tag |-> "Owned", vec |-> Filter(rem.vec, hist[Len(hist)])]

\* A variant: the private copy is made only when the filter removes an
\* entry; otherwise the pool is left as it was.
NarrowLazy(rem, hist) ==
    IF hist = <<>> THEN rem
    ELSE IF Filter(rem.vec, hist[Len(hist)]) = rem.vec THEN rem
    ELSE [tag |-> "Owned", vec |-> Filter(rem.vec, hist[Len(hist)])]

\* The narrowing step of Weight::guess: the `if let Some(last)` block.
Narrow(rem, hist) ==
    IF hist = <<>> THEN rem
    ELSE LET last == hist[Len(hist)]
         IN  IF rem.tag = "Owned"
             THEN [tag |-> "Owned", vec |-> Filter(rem.vec, last)]
             ELSE [tag |-> "Owned", vec |-> Filter(rem.vec, last)]

\* iter().map(|&(_, c)| c).sum()
RECURSIVE SumCounts(_)
SumCounts(vec) ==
    IF vec = <<>> THEN 0 ELSE Head(vec).count + SumCounts(Tail(vec))

\* The innermost loop for one (word, pattern): the total count of the pool
\* entries that Guess {word, pattern} accepts.  saturating_add is the plain
\* sum here: the counts of the model stay far below usize::MAX.
RECURSIVE InPatternTotal(_, _, _)
InPatternTotal(vec, word, pattern) ==
    IF vec = <<>> THEN 0
    ELSE (IF matches([word |-> word, mask |-> pattern], Head(vec).word)
          THEN Head(vec).count ELSE 0)
         + InPatternTotal(Tail(vec), word, pattern)

\* The in_pattern_total of every pattern, in the order of the pattern loop.
BucketTotals(vec, word) ==
    [n \in 1..NumPatterns |-> InPatternTotal(vec, word, PatternSeq[n])]

\* floor(log2(n) * 10^6) for n = 1..32: f64::log2 in fixed point.
Log2Table ==
    <<0, 1000000, 1584962, 2000000, 2321928, 2584962, 2807354, 3000000, 3169925, 3321928,
      3459431, 3584962, 3700439, 3807354, 3906890, 4000000, 4087462, 4169925, 4247927, 4321928,
      4392317, 4459431, 4523561, 4584962, 4643856, 4700439, 4754887, 4807354, 4857980, 4906890, 4954196, 5000000>>

\* The loop over the patterns skips a zero in_pattern_total (`continue`):
\* the nonzero totals, in loop order.
IsNonZero(t) == t # 0

NonZero(totals) == SelectSeq(totals, IsNonZero)

\* A slip: the sum is not negated, `p_word * sum`.
RECURSIVE NegSumPlain(_, _)
NegSumPlain(nonzero, total) ==
    IF nonzero = <<>> THEN 0
    ELSE Head(nonzero) * (Log2Table[Head(nonzero)] - Log2Table[total])
         + NegSumPlain(Tail(nonzero), total)

\* -sum scaled by total * 10^6: every remaining pattern adds
\* p * log2 p to sum, p = t / total; that is t * (log2 t - log2 total).
RECURSIVE NegSum(_, _)
NegSum(nonzero, total) ==
    IF nonzero = <<>> THEN 0
    ELSE Head(nonzero) * (Log2Table[total] - Log2Table[Head(nonzero)])
         + NegSum(Tail(nonzero), total)

\* One candidate of the scoring loop.  goodness is p_word * -sum scaled by
\* total^2 * 10^6 (the total is the same for every candidate of a call);
\* nan is the case 0.0 / 0.0 of an all-zero pool; ops, the count and the
\* nonzero totals in loop order, fixes every f64 operation of the
\* candidate's goodness.
Score(vec, k) ==
    LET total == SumCounts(vec)
        nonzero == NonZero(BucketTotals(vec, vec[k].word))
    IN  [word |-> vec[k].word,
         nan |-> total = 0,
         goodness |-> IF total = 0 THEN 0
                      ELSE vec[k].count * NegSum(nonzero, total),
         ops |-> <<vec[k].count, nonzero>>,
         slack |-> 2 * vec[k].count * total]

\* The candidates of the scoring loop for the entries 1..k of the pool, in
\* loop order.
RECURSIVE Candidates(_, _)
Candidates(vec, k) ==
    IF k = 0 THEN <<>> ELSE Append(Candidates(vec, k - 1), Score(vec, k))

\* Two candidates whose goodness differs by less than the error of the
\* fixed-point logarithms, computed by different f64 operations: the model
\* does not fix which f64 is the greater.  The same operations give the
\* same f64, and a zero goodness is an exact f64 zero.
NearTie(a, b) ==
    /\ ~a.nan /\ ~b.nan
    /\ a.ops # b.ops
    /\ a.goodness > 0 /\ b.goodness > 0
    /\ a.goodness <= b.goodness + a.slack + b.slack
    /\ b.goodness <= a.goodness + a.slack + b.slack

\* The f64 roundings of the candidates of one call: each candidate in a
\* near tie gets a level `round` that orders it among its near ties, the
\* same level for the same operations.  Every assignment of levels is one
\* outcome the f64 arithmetic can have.
Rounded(scores) ==
    LET n == Len(scores)
        Tied == {k \in 1..n : \E j \in 1..n : NearTie(scores[j], scores[k])}
        Levels == {f \in [Tied -> 1..Cardinality(Tied)] :
                      \A j, k \in Tied :
                          scores[j].ops = scores[k].ops => f[j] = f[k]}
    IN  {[k \in 1..n |->
             [word |-> scores[k].word, nan |-> scores[k].nan,
              goodness |-> scores[k].goodness, ops |-> scores[k].ops,
              slack |-> scores[k].slack,
              round |-> IF k \in Tied THEN f[k] ELSE 0]] : f \in Levels}

\* A slip: `goodness >= c.goodness`, so that a later candidate of equal
\* goodness replaces the earlier one.
GreaterOrEqual(new, old) ==
    IF new.nan \/ old.nan THEN FALSE
    ELSE IF NearTie(new, old) THEN new.round >= old.round
    ELSE new.goodness >= old.goodness

\* `goodness > c.goodness` on f64.  NaN compares false.
Greater(new, old) ==
    IF new.nan \/ old.nan THEN FALSE
    ELSE IF NearTie(new, old) THEN new.round > old.round
    ELSE new.goodness > old.goodness

\* A slip: the loop keeps its first candidate and compares nothing.
RECURSIVE SelectFirst(_, _, _)
SelectFirst(scores, k, best) ==
    IF k > Len(scores) THEN best
    ELSE IF best = 0 THEN SelectFirst(scores, k + 1, k)
    ELSE SelectFirst(scores, k + 1, best)

\* The scoring loop from entry k on, `best` being the index of the current
\* best candidate (0 for None): the index it ends with.
RECURSIVE SelectBest(_, _, _)
SelectBest(scores, k, best) ==
    IF k > Len(scores) THEN best
    ELSE IF best = 0 THEN SelectBest(scores, k + 1, k)
    ELSE IF Greater(scores[k], scores[best])
         THEN SelectBest(scores, k + 1, k)
         ELSE SelectBest(scores, k + 1, best)

\* The word of the best candidate: best.map_or(*b"cigar", |c| *c.word).
BestWord(vec, b) == IF b = 0 THEN FallbackWord ELSE vec[b].word

\* A slip: the fallback of an empty pool is the opening word.
GuessResultsOpening(vec, hist) ==
    IF hist = <<>> THEN {OpeningWord}
    ELSE LET scores == Candidates(vec, Len(vec))
         IN  {IF SelectBest(sc, 1, 0) = 0 THEN OpeningWord
              ELSE vec[SelectBest(sc, 1, 0)].word : sc \in Rounded(scores)}

\* The words Weight::guess can return for a narrowed pool and a history.
GuessResults(vec, hist) ==
    IF hist = <<>> THEN {OpeningWord}
    ELSE LET scores == Candidates(vec, Len(vec))
         IN  {BestWord(vec, SelectBest(sc, 1, 0)) : sc \in Rounded(scores)}

----------------------------------------------------------------------------
(* Wordle::play *)

\* Wordle.dictionary: the HashSet of the dictionary's words.
DictionaryWords == {dictionary[k].word : k \in 1..Len(dictionary)}

Some(n) == [tag |-> "Some", val |-> n]
None == [tag |-> "None", val |-> 0]

\* A slip: the round is counted from zero, Some(history.len()).
PlayWinFromZero ==
    /\ pc = "check"
    /\ guess = answer
    /\ result' = Some(Len(history))
    /\ pc' = "done"
    /\ UNCHANGED <<shared, dictionary, answer, guess, history, i, remaining,
                   returned, histArg, prevVec, script, mask, c, m>>

\* if guess == answer { return Some(i); }
PlayWin ==
    /\ pc = "check"
    /\ guess = answer
    /\ result' = Some(i)
    /\ pc' = "done"
    /\ UNCHANGED <<shared, dictionary, answer, guess, history, i, remaining,
                   returned, histArg, prevVec, script, mask, c, m>>

\* A slip: the assertion is compiled out (debug_assert!) and the word that
\* is not in the dictionary is pushed like any other.
PlayNoAssert ==
    /\ pc = "check"
    /\ guess # answer
    /\ guess \notin DictionaryWords
    /\ c' = compute(answer, guess)
    /\ history' = Append(history, [word |-> guess, mask |-> c'])
    /\ i' = i + 1
    /\ pc' = "call"
    /\ UNCHANGED <<shared, dictionary, answer, guess, result, remaining,
                   returned, histArg, prevVec, script, mask, m>>

\* assert!(self.dictionary.contains(&guess)) fails: play panics.
PlayPanic ==
    /\ pc = "check"
    /\ guess # answer
    /\ guess \notin DictionaryWords
    /\ pc' = "panic"
    /\ UNCHANGED <<shared, dictionary, answer, guess, history, i, result, remaining,
                   returned, histArg, prevVec, script, mask, c, m>>

\* A slip: the mask is taken with the guess as the answer.
PlayEntrySwapped(a, g) == [word |-> g, mask |-> compute(g, a)]

\* The Guess play pushes for a wrong guess.
PlayEntry(a, g) == [word |-> g, mask |-> compute(a, g)]

\* A slip: the loop runs one round too many (1..=33).
LoopBoundOffByOne == MaxRounds + 1

\* The last value of `for i in 1..=32`.
LoopBound == MaxRounds

\* The assertion holds: compute the mask, push the Guess, next iteration.
PlayPush ==
    /\ pc = "check"
    /\ guess # answer
    /\ guess \in DictionaryWords
    /\ c' = compute(answer, guess)
    /\ history' = Append(history, PlayEntry(answer, guess))
    /\ i' = i + 1
    /\ pc' = "call"
    /\ UNCHANGED <<shared, dictionary, answer, guess, result, remaining,
                   returned, histArg, prevVec, script, mask, m>>

\* The loop is exhausted: return None.
PlayNone ==
    /\ pc = "call"
    /\ i > LoopBound
    /\ result' = None
    /\ pc' = "done"
    /\ UNCHANGED <<shared, dictionary, answer, guess, history, i, remaining,
                   returned, histArg, prevVec, script, mask, c, m>>

----------------------------------------------------------------------------
(* play(answer, Weight::new()) *)

\* The size of the model's dictionary and the largest count in it.
DictLen == 4
MaxCount == 1

\* The words the model's dictionaries are made of.
WordList ==
    << OpeningWord,
       <<"f", "i", "l", "l", "y">>,
       <<"c", "r", "a", "t", "e">>,
       <<"h", "i", "l", "l", "y">>,
       FallbackWord,
       <<"t", "i", "l", "l", "y">> >>

DictWords == {WordList[k] : k \in 1..Len(WordList)}

\* The ways to pick DictLen words of the list, the opening word among them,
\* in the list's order or in the reverse order.
Picks ==
    {f \in [1..DictLen -> 1..Len(WordList)] :
        /\ \/ \A k \in 1..(DictLen - 1) : f[k] < f[k + 1]
           \/ \A k \in 1..(DictLen - 1) : f[k] > f[k + 1]
        /\ \E k \in 1..DictLen : WordList[f[k]] = OpeningWord}

\* The dictionaries: the picked words, each with a count.
Dictionaries ==
    {[k \in 1..DictLen |-> [word |-> WordList[f[k]], count |-> counts[k]]] :
        f \in Picks, counts \in [1..DictLen -> 0..MaxCount]}

\* Wordle::new(), Weight::new() and the entry of play.
Init ==
    /\ dictionary \in Dictionaries
    /\ answer \in DictWords
    /\ remaining = [tag |-> "Borrowed", vec |-> dictionary]
    /\ history = <<>>
    /\ i = 1
    /\ pc = "call"
    /\ result = NoResult
    /\ guess = NoWord
    /\ returned = <<>>
    /\ histArg = <<>>
    /\ prevVec = dictionary
    /\ script = NoScript
    /\ mask = NoMask
    /\ c = NoMask
    /\ m = FALSE
    /\ INITIAL = GetOrInit(EmptyCell, dictionary)
    /\ weights = NoWeights
    /\ alone = NoWeights

\* let guess = guesser.guess(&history), the guesser being a Weight.
GuessWeight ==
    /\ pc = "call"
    /\ i <= LoopBound
    /\ LET narrowed == Narrow(remaining, history)
       IN  /\ remaining' = narrowed
           /\ guess' \in GuessResults(narrowed.vec, history)
    /\ prevVec' = remaining.vec
    /\ histArg' = history
    /\ returned' = Append(returned, guess')
    /\ pc' = "check"
    /\ UNCHANGED <<shared, dictionary, answer, history, i, result, script,
                   mask, c, m>>

Next == GuessWeight \/ PlayWin \/ PlayPanic \/ PlayPush \/ PlayNone

Spec == Init /\ [][Next]_vars

----------------------------------------------------------------------------
(* play(answer, guesser) with the guessers of tests::game:                 *)
(*     guesser!(|history| { if history.len() == at { return hit; } miss }) *)

\* The guess of such a guesser for a history.
ScriptedGuess(s, hist) == IF Len(hist) = s.at THEN s.hit ELSE s.miss

\* The dictionary of these games: the first DictLen words of the list.
ScriptDictionary ==
    [k \in 1..DictLen |-> [word |-> WordList[k], count |-> MaxCount]]

\* The answers of these games: the first word of the list, which is in the
\* dictionary, and the last, which is not.
ScriptAnswers == {WordList[1], WordList[Len(WordList)]}

InitPlay ==
    /\ dictionary = ScriptDictionary
    /\ answer \in ScriptAnswers
    /\ script \in [at : 0..MaxRounds, hit : DictWords, miss : DictWords]
    /\ remaining = NoPool
    /\ history = <<>>
    /\ i = 1
    /\ pc = "call"
    /\ result = NoResult
    /\ guess = NoWord
    /\ returned = <<>>
    /\ histArg = <<>>
    /\ prevVec = <<>>
    /\ mask = NoMask
    /\ c = NoMask
    /\ m = FALSE
    /\ INITIAL = EmptyCell
    /\ weights = NoWeights
    /\ alone = NoWeights

\* let guess = guesser.guess(&history), the guesser being scripted.
GuessScripted ==
    /\ pc = "call"
    /\ i <= LoopBound
    /\ guess' = ScriptedGuess(script, history)
    /\ histArg' = history
    /\ returned' = Append(returned, guess')
    /\ pc' = "check"
    /\ UNCHANGED <<shared, dictionary, answer, history, i, result, remaining,
                   prevVec, script, mask, c, m>>

NextPlay == GuessScripted \/ PlayWin \/ PlayPanic \/ PlayPush \/ PlayNone

SpecPlay == InitPlay /\ [][NextPlay]_vars

\* play is sequential code: it keeps running until it returns or panics.
FairSpecPlay == SpecPlay /\ WF_vars(NextPlay)

----------------------------------------------------------------------------
(* Weight::guess called with any history.  guess reads only whether the    *)
(* history is empty and its last entry, so the histories are the empty one *)
(* and those of one Guess; the guessed word is a word of the list or a     *)
(* word outside it, the masks are those some word of the list produces for *)
(* the guessed word, and one mask no answer produces.                      *)

\* Correct four times, then Misplaced: not a mask of any answer.
ImpossibleMask == PatternSeq[2]

AnyMasks(w) == {compute(a, w) : a \in DictWords} \cup {ImpossibleMask}

\* A guessed word that shares no letter with the words of the list.
OutsideWord == <<"b", "o", "n", "u", "s">>

AnyHistories ==
    {<<>>} \cup
    UNION {{<<[word |-> w, mask |-> mk]>> : mk \in AnyMasks(w)} :
              w \in DictWords \cup {OutsideWord}}

\* The dictionaries of these calls: those whose words all have one count.
GuessDictionaries ==
    {d \in Dictionaries : \A k \in 1..DictLen : d[k].count = d[1].count}

InitGuess ==
    /\ dictionary \in GuessDictionaries
    /\ remaining = [tag |-> "Borrowed", vec |-> dictionary]
    /\ prevVec = dictionary
    /\ answer = NoWord
    /\ history = <<>>
    /\ i = 0
    /\ pc = "idle"
    /\ result = NoResult
    /\ guess = NoWord
    /\ returned = <<>>
    /\ histArg = <<>>
    /\ script = NoScript
    /\ mask = NoMask
    /\ c = NoMask
    /\ m = FALSE
    /\ INITIAL = GetOrInit(EmptyCell, dictionary)
    /\ weights = NoWeights
    /\ alone = NoWeights

\* One call weight.guess(&hist) from outside a game.
GuessAny ==
    /\ pc \in {"idle", "called"}
    /\ \E hist \in AnyHistories :
          LET narrowed == Narrow(remaining, hist)
          IN  /\ remaining' = narrowed
              /\ guess' \in GuessResults(narrowed.vec, hist)
              /\ histArg' = hist
    /\ prevVec' = remaining.vec
    /\ pc' = "called"
    /\ UNCHANGED <<shared, dictionary, answer, history, i, result, returned,
                   script, mask, c, m>>

NextGuess == GuessAny

SpecGuess == InitGuess /\ [][NextGuess]_vars

----------------------------------------------------------------------------
(* Weight instances that share INITIAL.  Every instance belongs to one     *)
(* thread (guess takes &mut self); the threads interleave at Weight::new,  *)
(* at the narrowing step of a guess call and at its scoring loop.          *)

NumWeights == 2

Weights == 1..NumWeights

\* Cow::Borrowed(&INITIAL's vector): a reference, no entries of its own.
BorrowedInitial == [tag |-> "Borrowed", vec |-> <<>>]

\* The pool an instance reads through its Cow.
View(cell, rem) ==
    IF rem.tag = "Borrowed" THEN [tag |-> "Borrowed", vec |-> cell.vec]
    ELSE rem

\* A slip: a borrowed pool is narrowed in place, in the shared vector.
NarrowInPlace(cell, rem, hist) ==
    IF hist = <<>> \/ rem.tag = "Owned"
    THEN [cell |-> cell, remaining |-> Narrow(rem, hist)]
    ELSE [cell |-> [set |-> cell.set,
                    vec |-> Filter(cell.vec, hist[Len(hist)])],
          remaining |-> rem]

\* The narrowing step on an instance whose borrow points at the cell: the
\* cell and the instance's pool after it.  The step reads the cell and
\* writes only self.remaining.
NarrowShared(cell, rem, hist) ==
    LET narrowed == Narrow(View(cell, rem), hist)
    IN  [cell |-> cell,
         remaining |-> IF narrowed.tag = "Borrowed" THEN BorrowedInitial
                       ELSE narrowed]

NoWeight == [at |-> "none", remaining |-> NoPool, hist |-> <<>>,
             out |-> NoWord]

\* The dictionary of these runs: the first words of the list, each with
\* the largest count.
SharedDictionaries ==
    {d \in GuessDictionaries :
        \A k \in 1..DictLen : d[k].word = WordList[k] /\ d[k].count = MaxCount}

\* The histories of these calls: the empty one, and one Guess of the first
\* or second dictionary word with the mask the next word produces.
SharedHistories ==
    {<<>>} \cup
    {<<[word |-> dictionary[j].word,
        mask |-> compute(dictionary[j + 1].word, dictionary[j].word)]>> :
        j \in 1..2}

InitShared ==
    /\ dictionary \in SharedDictionaries
    /\ INITIAL = EmptyCell
    /\ weights = [w \in Weights |-> NoWeight]
    /\ alone = [w \in Weights |-> NoPool]
    /\ remaining = NoPool
    /\ prevVec = <<>>
    /\ answer = NoWord
    /\ history = <<>>
    /\ i = 0
    /\ pc = "shared"
    /\ result = NoResult
    /\ guess = NoWord
    /\ returned = <<>>
    /\ histArg = <<>>
    /\ script = NoScript
    /\ mask = NoMask
    /\ c = NoMask
    /\ m = FALSE

\* Weight::new() on one thread.
New(w) ==
    /\ weights[w].at = "none"
    /\ INITIAL' = GetOrInit(INITIAL, dictionary)
    /\ weights' = [weights EXCEPT ![w] =
                       [at |-> "idle", remaining |-> BorrowedInitial,
                        hist |-> <<>>, out |-> NoWord]]
    /\ alone' = [alone EXCEPT ![w] = [tag |-> "Borrowed", vec |-> dictionary]]
    /\ UNCHANGED <<dictionary, answer, guess, history, i, pc, result,
                   remaining, returned, histArg, prevVec, script, mask, c, m>>

\* The narrowing step of a guess call on instance w.
GuessNarrow(w) ==
    /\ weights[w].at = "idle"
    /\ \E hist \in SharedHistories :
          LET step == NarrowShared(INITIAL, weights[w].remaining, hist)
          IN  /\ INITIAL' = step.cell
              /\ weights' = [weights EXCEPT ![w] =
                                 [at |-> "narrowed",
                                  remaining |-> step.remaining,
                                  hist |-> hist, out |-> NoWord]]
              /\ alone' = [alone EXCEPT ![w] = Narrow(@, hist)]
    /\ UNCHANGED <<dictionary, answer, guess, history, i, pc, result,
                   remaining, returned, histArg, prevVec, script, mask, c, m>>

\* The rest of the call: the early return or the scoring loop, and the
\* return of the guess.
GuessScore(w) ==
    /\ weights[w].at = "narrowed"
    /\ \E word \in GuessResults(View(INITIAL, weights[w].remaining).vec,
                                weights[w].hist) :
          weights' = [weights EXCEPT ![w] =
                          [at |-> "idle", remaining |-> @.remaining,
                           hist |-> <<>>, out |-> word]]
    /\ UNCHANGED <<dictionary, answer, guess, history, i, pc, result,
                   remaining, returned, histArg, prevVec, script, mask, c, m,
                   INITIAL, alone>>

NextShared ==
    \E w \in Weights : New(w) \/ GuessNarrow(w) \/ GuessScore(w)

SpecShared == InitShared /\ [][NextShared]_vars

----------------------------------------------------------------------------
(* Checking compute and matches as pure functions.  The inputs are the     *)
(* words of the crate's own tests (tests::compute, tests::guess_matcher,   *)
(* tests::game) and the two words Weight::guess returns as constants; the  *)
(* mask handed to matches ranges over all of Correctness::patterns().      *)

TestWords ==
    { <<"a", "b", "c", "d", "e">>,
      <<"e", "a", "b", "c", "d">>,
      <<"f", "g", "h", "i", "j">>,
      <<"a", "a", "b", "b", "b">>,
      <<"a", "a", "c", "c", "c">>,
      <<"c", "c", "a", "a", "c">>,
      <<"c", "a", "a", "c", "c">>,
      <<"a", "z", "z", "a", "z">>,
      <<"a", "a", "a", "b", "b">>,
      <<"b", "a", "c", "c", "c">>,
      <<"a", "a", "d", "d", "d">>,
      <<"a", "a", "c", "d", "e">>,
      <<"b", "a", "a", "a", "a">>,
      <<"a", "c", "c", "a", "a">>,
      <<"b", "c", "d", "e", "a">>,
      <<"a", "b", "c", "d", "f">>,
      <<"t", "a", "r", "e", "s">>,
      <<"b", "r", "i", "n", "k">>,
      <<"r", "i", "g", "h", "t">>,
      <<"w", "r", "o", "n", "g">> }

ComputeWords == TestWords \cup {OpeningWord, FallbackWord}


InitCompute ==
    /\ answer \in ComputeWords
    /\ guess \in ComputeWords
    /\ pc = "start"
    /\ c = NoMask
    /\ mask = NoMask
    /\ m = FALSE
    /\ dictionary = <<>>
    /\ history = <<>>
    /\ i = 0
    /\ result = NoResult
    /\ remaining = NoPool
    /\ returned = <<>>
    /\ histArg = <<>>
    /\ prevVec = <<>>
    /\ script = NoScript
    /\ INITIAL = EmptyCell
    /\ weights = NoWeights
    /\ alone = NoWeights

\* Correctness::compute(&answer, &guess)
Compute ==
    /\ pc = "start"
    /\ c' = compute(answer, guess)
    /\ pc' = "computed"
    /\ UNCHANGED <<shared, dictionary, answer, guess, history, i, result, remaining,
                   returned, histArg, prevVec, script, mask, m>>

\* Guess { word: guess, mask: pattern }.matches(&answer)
Matches ==
    /\ pc = "computed"
    /\ \E pattern \in Patterns :
          /\ mask' = pattern
          /\ m' = matches([word |-> guess, mask |-> pattern], answer)
    /\ pc' = "matched"
    /\ UNCHANGED <<shared, dictionary, answer, guess, history, i, result, remaining,
                   returned, histArg, prevVec, script, c>>

NextCompute == Compute \/ Matches

SpecCompute == InitCompute /\ [][NextCompute]_vars

----------------------------------------------------------------------------
(* The mask, stated without the `used` bookkeeping. *)

\* Guess positions holding x that are not green.
OpenGuess(a, g, x) == {p \in Positions : g[p] = x /\ a[p] # g[p]}

\* Answer positions holding x that are not matched green.
OpenAnswer(a, g, x) == {p \in Positions : a[p] = x /\ a[p] # g[p]}

Min(x, y) == IF x <= y THEN x ELSE y

Yellows(a, g, x) ==
    Min(Cardinality(OpenGuess(a, g, x)), Cardinality(OpenAnswer(a, g, x)))

ExpectedMark(a, g, p) ==
    IF a[p] = g[p] THEN "Correct"
    ELSE IF Cardinality({q \in OpenGuess(a, g, g[p]) : q < p})
               < Yellows(a, g, g[p])
         THEN "Misplaced"
         ELSE "Wrong"

CountOf(cs, v) == Cardinality({p \in Positions : cs[p] = v})

\* C1: the mask compute returns for (answer, guess) has Correct exactly
\* where the two words agree, and for every letter x the leftmost k
\* non-Correct guess positions holding x are Misplaced and the others Wrong,
\* k being the smaller of the number of non-Correct guess positions holding
\* x and the number of answer positions holding x that are not green; so the
\* Misplaced marks of a letter never outnumber its open answer positions.
C1_ComputeMask ==
    pc # "start" =>
        /\ DOMAIN c = Positions
        /\ \A p \in Positions : c[p] = ExpectedMark(answer, guess, p)
        /\ \A p \in Positions :
              Cardinality({q \in Positions :
                              c[q] = "Misplaced" /\ guess[q] = guess[p]})
                  <= Cardinality(OpenAnswer(answer, guess, guess[p]))

\* A repeated letter of the guess meets fewer open copies in the answer:
\* only the leftmost is Misplaced, a later one is Wrong.
C1_Witness ==
    /\ pc = "computed"
    /\ \E p, q \in Positions :
          /\ p < q
          /\ guess[p] = guess[q]
          /\ c[p] = "Misplaced"
          /\ c[q] = "Wrong"

C6_Matches ==
    pc = "matched" =>
        /\ m <=> \A p \in Positions : mask[p] = ExpectedMark(answer, guess, p)
        /\ (\A p \in Positions : mask[p] = c[p]) => m

\* matches accepted the computed mask of a pair whose reverse mask differs.
C6_Witness ==
    /\ pc = "matched"
    /\ m
    /\ \E p \in Positions : compute(guess, answer)[p] # mask[p]

----------------------------------------------------------------------------
(* The game with the Weight guesser *)

InPool(word) == \E k \in 1..Len(remaining.vec) : remaining.vec[k].word = word

\* C2: in play(answer, Weight::new()) with an answer of the dictionary, the
\* pool holds the answer after every call of Weight::guess.
C2_AnswerStaysInPool ==
    (answer \in DictionaryWords /\ Len(returned) >= 1) => InPool(answer)

\* The pool has been narrowed twice, lost entries, and still holds the
\* answer.
C2_Witness ==
    /\ answer \in DictionaryWords
    /\ pc = "check"
    /\ Len(histArg) >= 2
    /\ Len(remaining.vec) < Len(dictionary)
    /\ InPool(answer)

\* The entry's word is accepted by every Guess of the history.
MatchesAll(hist, entry) ==
    \A j \in 1..Len(hist) :
        \A p \in Positions :
            hist[j].mask[p] = ExpectedMark(entry.word, hist[j].word, p)

\* The dictionary entries, in order, that every Guess of hist accepts.
RECURSIVE Consistent(_, _)
Consistent(vec, hist) ==
    IF vec = <<>> THEN <<>>
    ELSE (IF MatchesAll(hist, Head(vec)) THEN <<Head(vec)>> ELSE <<>>)
         \o Consistent(Tail(vec), hist)

\* C3: in play with the Weight guesser, after the call that received the
\* history h the pool is exactly the dictionary entries whose word matches
\* every Guess of h, in the dictionary's order, although each call narrows
\* with the last Guess only.
C3_PoolIsConsistentSet ==
    Len(returned) >= 1 => remaining.vec = Consistent(dictionary, histArg)

\* A dictionary word that the latest Guess accepts is out of the pool
\* because an earlier Guess rejected it.
C3_Witness ==
    /\ pc = "check"
    /\ Len(histArg) >= 2
    /\ \E k \in 1..Len(dictionary) :
          /\ matches(histArg[Len(histArg)], dictionary[k].word)
          /\ ~InPool(dictionary[k].word)

----------------------------------------------------------------------------
(* Weight::guess with any history *)

RECURSIVE IsSubSeq(_, _)
IsSubSeq(s, t) ==
    IF s = <<>> THEN TRUE
    ELSE IF t = <<>> THEN FALSE
    ELSE IF Head(s) = Head(t) THEN IsSubSeq(Tail(s), Tail(t))
    ELSE IsSubSeq(s, Tail(t))

\* C7: whatever history Weight::guess is called with, the pool after the
\* call is a sub-sequence of the pool before it, so it never gets longer.
C7_PoolNeverGrows ==
    [][/\ IsSubSeq(remaining'.vec, remaining.vec)
       /\ Len(remaining'.vec) <= Len(remaining.vec)]_vars

\* A call removed some entries of the pool and kept others.
C7_Witness ==
    /\ pc = "called"
    /\ Len(remaining.vec) < Len(prevVec)
    /\ Len(remaining.vec) >= 1
    /\ Len(prevVec) < Len(dictionary)

\* C12: a call with an empty history returns the opening word, whatever
\* calls went before, and leaves the pool as it was: the same entries and
\* still borrowed if it was borrowed.
C12_EmptyHistory ==
    [][(pc' = "called" /\ histArg' = <<>>) =>
          (guess' = OpeningWord /\ remaining' = remaining)]_vars

\* A call with an empty history on a pool that earlier calls have narrowed
\* until the opening word is no longer in it.
C12_Witness ==
    /\ pc = "called"
    /\ histArg = <<>>
    /\ guess = OpeningWord
    /\ remaining.tag = "Owned"
    /\ remaining.vec = prevVec
    /\ ~InPool(OpeningWord)

\* C15 as stated: the pool stays borrowed until a narrowing step removes an
\* entry, and becomes private only at such a step.
C15_CopyOnRemoval ==
    [][pc' = "called" =>
          /\ (remaining.tag = "Owned" => remaining'.tag = "Owned")
          /\ (remaining.tag = "Borrowed" /\ remaining'.tag = "Owned" =>
                  Len(remaining'.vec) < Len(remaining.vec))]_vars

\* C15: the pool is a borrow of the whole dictionary until the first call
\* with a non-empty history; that call makes the pool private whether or not
\* it removes an entry, and a private pool stays private.
C15_CopyOnNarrowing ==
    /\ [](remaining.tag = "Borrowed" => remaining.vec = dictionary)
    /\ [][pc' = "called" =>
             (remaining'.tag = "Owned" <=>
                  (remaining.tag = "Owned" \/ histArg' # <<>>))]_vars

\* The first narrowing step removed nothing and the pool is private.
C15_Witness ==
    /\ pc = "called"
    /\ histArg # <<>>
    /\ prevVec = dictionary
    /\ remaining = [tag |-> "Owned", vec |-> dictionary]

\* C16 as stated: for a non-empty history the call returns the fallback
\* word exactly when the narrowed pool is empty, and a member of the pool
\* otherwise.
C16_FallbackIffEmpty ==
    (pc = "called" /\ histArg # <<>>) =>
        /\ (guess = FallbackWord <=> remaining.vec = <<>>)
        /\ (remaining.vec # <<>> => InPool(guess))

\* C16: for a non-empty history the call returns the fallback word when
\* the narrowed pool is empty and a member of the pool otherwise, so it
\* returns a word outside the pool exactly when the pool is empty; the
\* fallback word itself is also returned as a member of the pool.
C16_FallbackOrMember ==
    (pc = "called" /\ histArg # <<>>) =>
        /\ (remaining.vec = <<>> => guess = FallbackWord)
        /\ (remaining.vec # <<>> => InPool(guess))

\* Both cases of the fallback word: returned for an empty pool ...
C16_Witness ==
    /\ pc = "called"
    /\ histArg # <<>>
    /\ remaining.vec = <<>>
    /\ guess = FallbackWord

\* ... and returned as the best entry of a pool that is not empty.
C16_MemberWitness ==
    /\ pc = "called"
    /\ histArg # <<>>
    /\ remaining.vec # <<>>
    /\ guess = FallbackWord
    /\ InPool(FallbackWord)

\* The candidates the scoring loop computed for the pool of this state.
Scores == Candidates(remaining.vec, Len(remaining.vec))

\* The goodness of a is below that of b.
Below(a, b) ==
    IF NearTie(a, b) THEN a.round < b.round ELSE a.goodness < b.goodness

\* Entry b has maximal goodness and is the first of its goodness.  When
\* every goodness is NaN no entry is greater than the first.
IsBestFirst(scores, b) ==
    IF scores[b].nan THEN b = 1
    ELSE \A k \in 1..Len(scores) :
            /\ ~Below(scores[b], scores[k])
            /\ (k < b => Below(scores[k], scores[b]))

\* C14: for a non-empty history and a non-empty narrowed pool the call
\* returns the entry of maximal goodness, the first one among entries of
\* equal maximal goodness, in the order of the pool, which is the order of
\* the dictionary.
C14_BestFirst ==
    (pc = "called" /\ histArg # <<>> /\ remaining.vec # <<>>) =>
        /\ IsSubSeq(remaining.vec, dictionary)
        /\ \E sc \in Rounded(Scores) : \E b \in 1..Len(remaining.vec) :
              /\ remaining.vec[b].word = guess
              /\ IsBestFirst(sc, b)

\* The call returned an entry that is not the first of its pool, and an
\* entry after it has exactly the same goodness.
C14_Witness ==
    /\ pc = "called"
    /\ histArg # <<>>
    /\ LET sc == Scores
       IN  \E b \in 2..Len(sc) :
              /\ remaining.vec[b].word = guess
              /\ ~NearTie(sc[1], sc[b])
              /\ sc[1].goodness < sc[b].goodness
              /\ \E k \in (b + 1)..Len(sc) : sc[k].ops = sc[b].ops

\* The entropy `-sum` of a candidate of this state's pool, scaled by
\* total * 10^6, and the number of its patterns with a nonzero total.
Entropy(cand) == NegSum(cand.ops[2], SumCounts(remaining.vec))

Buckets(cand) == Len(cand.ops[2])

\* C13: for every candidate of a non-empty pool of positive total count,
\* the entropy is at least 0 and at most log2 of the number of patterns
\* with a nonzero total, which is at most log2(243) = 5 * log2(3); and the
\* goodness is at least 0.  The upper bounds allow for the truncation of
\* the fixed-point logarithms, at most 2 * total.
C13_EntropyRange ==
    (pc = "check" /\ histArg # <<>> /\ SumCounts(remaining.vec) > 0) =>
        LET sc == Scores
            total == SumCounts(remaining.vec)
        IN  \A k \in 1..Len(sc) :
                LET e == Entropy(sc[k])
                    b == Buckets(sc[k])
                IN  /\ e >= 0
                    /\ b \in 1..NumPatterns
                    /\ e <= total * Log2Table[b] + 2 * total
                    /\ Log2Table[b] <= WordLen * Log2Table[3]
                    /\ e <= total * WordLen * Log2Table[3] + 2 * total
                    /\ sc[k].goodness >= 0

\* A pool with a candidate of positive goodness whose entropy is log2 of
\* its number of patterns, more than one.
C13_Witness ==
    /\ pc = "check"
    /\ histArg # <<>>
    /\ LET sc == Scores
       IN  \E k \in 1..Len(sc) :
              /\ Buckets(sc[k]) > 1
              /\ Entropy(sc[k])
                     = SumCounts(remaining.vec) * Log2Table[Buckets(sc[k])]
              /\ sc[k].goodness > 0

RECURSIVE SumSeq(_)
SumSeq(seq) == IF seq = <<>> THEN 0 ELSE Head(seq) + SumSeq(Tail(seq))

\* The patterns whose Guess for the word of entry k accepts entry j.
MatchingPatterns(k, j) ==
    {n \in 1..NumPatterns :
        matches([word |-> remaining.vec[k].word, mask |-> PatternSeq[n]],
                remaining.vec[j].word)}

\* C18: patterns() yields 243 masks, pairwise distinct; for every candidate
\* of the scoring loop every pool entry matches exactly one of them, and the
\* candidate's in_pattern_totals add up to the pool's total count.
C18_Partition ==
    /\ Len(PatternSeq) = 243
    /\ Cardinality({PatternSeq[n] : n \in 1..NumPatterns}) = 243
    /\ {PatternSeq[n] : n \in 1..NumPatterns} = Patterns
    /\ (pc = "called" /\ histArg # <<>>) =>
           LET sc == Scores
           IN  \A k \in 1..Len(remaining.vec) :
                   /\ \A j \in 1..Len(remaining.vec) :
                          Cardinality(MatchingPatterns(k, j)) = 1
                   /\ SumSeq(sc[k].ops[2]) = SumCounts(remaining.vec)

\* A scored pool of two entries that match different patterns of a
\* candidate, each with a count.
C18_Witness ==
    /\ pc = "called"
    /\ histArg # <<>>
    /\ Len(remaining.vec) >= 2
    /\ MatchingPatterns(1, 1) # MatchingPatterns(1, 2)
    /\ Len(Score(remaining.vec, 1).ops[2]) >= 2
    /\ SumCounts(remaining.vec) >= 2

\* In a game with an answer of the dictionary: the words guessed so far are
\* not in the pool after a call, and no word was returned twice.
C17_WrongGuessesGone ==
    (answer \in DictionaryWords /\ pc = "check") =>
        /\ \A j \in 1..Len(histArg) : ~InPool(histArg[j].word)
        /\ \A j, k \in 1..Len(returned) :
               returned[j] = returned[k] => j = k

\* From the second narrowing on a call makes the pool shorter.
C17_PoolShrinks ==
    (answer \in DictionaryWords /\ pc' = "check" /\ Len(histArg') >= 2) =>
        Len(remaining'.vec) < Len(remaining.vec)

\* C17 as stated: in a game with an answer of the dictionary every wrong
\* guess is out of the pool after the next call, no word is guessed twice,
\* the pool shrinks from the second narrowing on, and the fallback word is
\* never returned.
C17_NeverFallbackWord ==
    /\ [](C17_WrongGuessesGone)
    /\ [][C17_PoolShrinks]_vars
    /\ [](answer \in DictionaryWords =>
              \A j \in 1..Len(returned) : returned[j] # FallbackWord)

\* C17: in a game with an answer of the dictionary every wrong guess is
\* out of the pool after the next call, no word is guessed twice, the pool
\* shrinks from the second narrowing on, and the fallback of an empty pool
\* is never taken: every guess after the opening word is a member of the
\* narrowed pool, the fallback word included when it is returned.
C17_NeverFallback ==
    /\ [](C17_WrongGuessesGone)
    /\ [][C17_PoolShrinks]_vars
    /\ []((answer \in DictionaryWords /\ pc = "check" /\ histArg # <<>>) =>
              (remaining.vec # <<>> /\ InPool(guess)))

\* The third call of a game with an answer of the dictionary: two wrong
\* guesses are out of the pool, which the second narrowing made shorter.
C17_Witness ==
    /\ answer \in DictionaryWords
    /\ pc = "check"
    /\ Len(histArg) >= 2
    /\ Len(remaining.vec) < Len(prevVec)
    /\ InPool(guess)

----------------------------------------------------------------------------
(* The game loop with the scripted guessers *)

Ended == pc \in {"done", "panic"}

\* The guess of round r has been judged by play.
Judged(r) == r < Len(returned) \/ pc # "check"

\* C4 as stated: Some(i) for the first round i whose guess is the answer, all
\* earlier guesses being dictionary words, and None when none of the 32
\* guesses is the answer.
C4_ResultAsStated ==
    Ended =>
        /\ \A r \in 1..Len(returned) :
              (/\ returned[r] = answer
               /\ \A q \in 1..(r - 1) :
                     returned[q] # answer /\ returned[q] \in DictionaryWords)
              => result = Some(r)
        /\ (/\ Len(returned) = MaxRounds
            /\ \A r \in 1..Len(returned) : returned[r] # answer)
           => result = None

\* C4, amended: Some(i) for the first round i whose guess is the answer, all
\* earlier guesses being dictionary words; None when none of the 32 guesses
\* is the answer and all of them are dictionary words.  Some(i) is returned
\* in no other case and None in no other case.
C4_Result ==
    Ended =>
        /\ \A r \in 1..Len(returned) :
              (/\ returned[r] = answer
               /\ \A q \in 1..(r - 1) :
                     returned[q] # answer /\ returned[q] \in DictionaryWords)
              => result = Some(r)
        /\ (/\ Len(returned) = MaxRounds
            /\ \A r \in 1..Len(returned) :
                  returned[r] # answer /\ returned[r] \in DictionaryWords)
           => result = None
        /\ result.tag = "Some" =>
              /\ result.val = Len(returned)
              /\ returned[result.val] = answer
              /\ \A q \in 1..(result.val - 1) : returned[q] # answer
        /\ result = None =>
              /\ Len(returned) = MaxRounds
              /\ \A r \in 1..Len(returned) : returned[r] # answer

\* A game won after the first round.
C4_Witness ==
    /\ pc = "done"
    /\ result.tag = "Some"
    /\ result.val >= 3

IsPrefix(s, t) == Len(s) <= Len(t) /\ \A k \in 1..Len(s) : s[k] = t[k]

ExpectedMask(a, g) == [p \in Positions |-> ExpectedMark(a, g, p)]

\* What each call of the guesser receives.
C8_Received ==
    /\ Len(returned) >= 1 => Len(histArg) = Len(returned) - 1
    /\ pc = "check" => i = Len(returned) /\ histArg = history
    /\ IsPrefix(histArg, history)
    /\ Len(history) <= Len(returned)
    /\ \A j \in 1..Len(history) : history[j].word = returned[j]

\* What a step of play does to the history.
C8_Appended ==
    \/ history' = history
    \/ /\ Len(history) < Len(returned)
       /\ history' =
             Append(history,
                    [word |-> returned[Len(history) + 1],
                     mask |-> ExpectedMask(answer,
                                           returned[Len(history) + 1])])

\* C8: the guesser's call of round i receives a history of i-1 entries, entry
\* j being the guess of round j with the mask of that guess against the
\* answer; and play only appends to the history, never changing or removing
\* an entry.
C8_History == [](C8_Received) /\ [][C8_Appended]_vars

\* The call of a later round has received two entries with different words.
C8_Witness ==
    /\ pc = "check"
    /\ Len(histArg) >= 2
    /\ histArg[1].word # histArg[2].word
    /\ histArg[1].mask # histArg[2].mask

\* C9: every game ends, by a return or by the panic of the assertion, and
\* the guesser is called at most 32 times; a game that returns without a
\* success has used all 32 rounds.
C9_Terminates ==
    /\ <>Ended
    /\ [](Len(returned) <= MaxRounds)
    /\ []((pc = "done" /\ result.tag # "Some") =>
             (result = None /\ Len(returned) = MaxRounds))

\* A game that went through all the rounds.
C9_Witness ==
    /\ pc = "done"
    /\ result = None
    /\ Len(returned) = MaxRounds

\* C10 as stated: a returned word that is not in the dictionary aborts the
\* game: no round count is returned and no entry is pushed for it.
C10_AbortAsStated ==
    \A r \in 1..Len(returned) :
        (returned[r] \notin DictionaryWords /\ Judged(r)) =>
            /\ pc = "panic"
            /\ result = NoResult
            /\ r = Len(returned)
            /\ Len(history) = r - 1

\* C10, amended: a returned word that is not in the dictionary and is not
\* the answer aborts the game: no round count is returned and no entry is
\* pushed for it.
C10_Abort ==
    \A r \in 1..Len(returned) :
        (/\ returned[r] \notin DictionaryWords
         /\ returned[r] # answer
         /\ Judged(r)) =>
            /\ pc = "panic"
            /\ result = NoResult
            /\ r = Len(returned)
            /\ Len(history) = r - 1

\* The assertion failed in a later round, after entries had been pushed.
C10_Witness ==
    /\ pc = "panic"
    /\ Len(history) >= 2
    /\ guess \notin DictionaryWords

----------------------------------------------------------------------------
(* Weight instances that share INITIAL *)

\* C11, the shared base: once set, INITIAL holds the dictionary and no step
\* of any instance changes it.
C11_BaseKept ==
    /\ [](INITIAL.set => INITIAL.vec = dictionary)
    /\ [][INITIAL.set => INITIAL' = INITIAL]_vars

\* The call of instance w returns in this step.
Returns(w) == weights[w].at = "narrowed" /\ weights'[w].at = "idle"

\* C11: in every interleaving of the calls of the instances the shared
\* base is initialized once and never modified, the pool each instance
\* reads is the pool it has when its calls run alone, and each guess it
\* returns is a guess the same call returns then.
C11_Independent ==
    /\ C11_BaseKept
    /\ [](\A w \in Weights :
              weights[w].at # "none" =>
                  View(INITIAL, weights[w].remaining) = alone[w])
    /\ [][\A w \in Weights :
              Returns(w) =>
                  weights'[w].out
                      \in GuessResults(alone[w].vec, weights[w].hist)]_vars

\* Two instances in the middle of their calls, one on a private pool and
\* one reading the shared base, after an earlier call of the first.
C11_Witness ==
    \E v, w \in Weights :
        /\ weights[v].at = "narrowed" /\ weights[w].at = "narrowed"
        /\ weights[v].remaining.tag = "Owned"
        /\ weights[w].remaining.tag = "Borrowed"
        /\ Len(weights[v].remaining.vec) < Len(INITIAL.vec)
        /\ weights[w].hist = <<>>

====
